---- MODULE Spec2Model ----
(***************************************************************************)
(* django_changeset/models/queryset.py: the content-type resolver          *)
(* get_content_type_of and the three queryset helpers of                   *)
(* ChangeSetQuerySetMixin, over the audit log (ChangeSet table), the       *)
(* content-type registry, the request-scoped current user and the rows of  *)
(* the queried model.                                                      *)
(***************************************************************************)
EXTENDS Naturals, FiniteSets, Bags, TLC

VARIABLES changesets, content_types, current_user, rows, ret

vars == <<changesets, content_types, current_user, rows, ret>>

env == <<changesets, content_types, current_user, rows>>

(* ------------------------------ bounds --------------------------------- *)

\* most audit records the ChangeSet table holds
MaxLog == 2

(* ------------------------------ domains -------------------------------- *)

\* Python's None: the absent user, the absent content type
None == "None"

\* the exception get_for_model signals a missing registry entry with
DoesNotExist == "ContentType.DoesNotExist"

Users == {"alice"}

\* values get_current_user() returns, and values of ChangeSet.user
UserValues == Users \cup {None}

\* the model class of the queryset the mixin is used on (self.model)
Models == {"Article"}

\* another model class of the project, registered from the start
OtherModels == {"Comment"}

\* the deferred proxy classes the framework derives from a model class
DeferredClasses == {"Article_Deferred_title"}

Classes == Models \cup OtherModels \cup DeferredClasses

\* primary keys / object_uuid values
PKs == {"x", "y"}

\* the values of changeset_type the three helpers filter on
ChangesetTypes == {"I", "U", "D"}

\* the ContentType row the registry holds for a model class
ContentTypeOf(model) ==
    IF model = "Article" THEN "contenttype_article" ELSE "contenttype_comment"

ContentTypes == {ContentTypeOf(m) : m \in Models \cup OtherModels}

\* a row of the ChangeSet table
ChangeSet == [user : UserValues,
              object_type : ContentTypes \cup {None},
              object_uuid : PKs,
              changeset_type : ChangesetTypes]

(* ------------------------- python class model -------------------------- *)

\* model.__mro__ as a 1-based sequence (python's __mro__[k] is mro[k+1])
mro ==
    [model \in Classes |->
        IF model \in DeferredClasses
        THEN <<model, "Article", "Model", "object">>
        ELSE <<model, "Model", "object">>]

\* the classes whose own namespace sets _deferred to a true value
sets_deferred == DeferredClasses

\* getattr(model, '_deferred', False): found on any class of the mro
getattr_deferred ==
    [model \in Classes |->
        \E i \in DOMAIN mro[model] : mro[model][i] \in sets_deferred]

(* --------------------------- get_content_type_of ----------------------- *)

\* ContentType.objects.get_for_model(model) as get_content_type_of uses it:
\* the registry entry, or the DoesNotExist exception
get_for_model(registry, model) ==
    IF model \in DOMAIN registry
    THEN [raised |-> FALSE, value |-> registry[model]]
    ELSE [raised |-> TRUE, value |-> DoesNotExist]

\* faulty variant: the deferred branch is skipped, the proxy itself is looked up
get_content_type_of_no_deferred(registry, model) ==
    LET r == get_for_model(registry, model)
    IN IF r.raised THEN None ELSE r.value

\* faulty variant: no except clause, the exception leaves the function
get_content_type_of_no_except(registry, model) ==
    LET real == IF getattr_deferred[model] THEN mro[model][2] ELSE model
    IN get_for_model(registry, real).value

get_content_type_of(registry, model) ==
    LET real == IF getattr_deferred[model] THEN mro[model][2] ELSE model
        r == get_for_model(registry, real)
    IN IF r.raised THEN None ELSE r.value

(* ------------------------------ ORM pieces ----------------------------- *)

\* faulty variant: the user is left out of the lookup
ChangeSet_objects_filter_any_user(table, user, object_type, changeset_type) ==
    {c \in BagToSet(table) :
        /\ c.object_type = object_type
        /\ c.changeset_type = changeset_type}

\* faulty variant: an absent user is special-cased to match no record
ChangeSet_objects_filter_no_anonymous(table, user, object_type, changeset_type) ==
    {c \in BagToSet(table) :
        /\ user # None
        /\ c.user = user
        /\ c.object_type = object_type
        /\ c.changeset_type = changeset_type}

\* ChangeSet.objects.filter(user=..., object_type=..., changeset_type=...)
\* over the rows of the ChangeSet table
ChangeSet_objects_filter(table, user, object_type, changeset_type) ==
    {c \in BagToSet(table) :
        /\ c.user = user
        /\ c.object_type = object_type
        /\ c.changeset_type = changeset_type}

\* objects.values_list('object_uuid', flat=True)
values_list_object_uuid(objects) == {c.object_uuid : c \in objects}

\* faulty variant: the identifiers are returned without restricting self to them
filter_pk_in_unrestricted(self, object_uuids) == object_uuids

\* self.filter(pk__in=object_uuids)
filter_pk_in(self, object_uuids) == {pk \in self : pk \in object_uuids}

(* ------------------------- the three helpers' queries ------------------ *)

\* the queryset created_by_current_user returns, from what it reads
created_by_current_user_qs(table, registry, user, model, self) ==
    LET objects == ChangeSet_objects_filter(
                       table, user, get_content_type_of(registry, model), "I")
        object_uuids == values_list_object_uuid(objects)
    IN filter_pk_in(self, object_uuids)

\* faulty variant: the literal of the helper it was copied from is left in place
deleted_by_current_user_qs_insert(table, registry, user, model, self) ==
    LET objects == ChangeSet_objects_filter(
                       table, user, get_content_type_of(registry, model), "I")
        object_uuids == values_list_object_uuid(objects)
    IN filter_pk_in(self, object_uuids)

\* the queryset deleted_by_current_user returns, from what it reads
deleted_by_current_user_qs(table, registry, user, model, self) ==
    LET objects == ChangeSet_objects_filter(
                       table, user, get_content_type_of(registry, model), "D")
        object_uuids == values_list_object_uuid(objects)
    IN filter_pk_in(self, object_uuids)

\* faulty variant: every kind of change counts as an update
updated_by_current_user_qs_any_kind(table, registry, user, model, self) ==
    LET objects == UNION {ChangeSet_objects_filter(
                       table, user, get_content_type_of(registry, model), k) :
                       k \in ChangesetTypes}
        object_uuids == values_list_object_uuid(objects)
    IN filter_pk_in(self, object_uuids)

\* the queryset updated_by_current_user returns, from what it reads
updated_by_current_user_qs(table, registry, user, model, self) ==
    LET objects == ChangeSet_objects_filter(
                       table, user, get_content_type_of(registry, model), "U")
        object_uuids == values_list_object_uuid(objects)
    IN filter_pk_in(self, object_uuids)

(* ------------------------------ operations ----------------------------- *)

\* no call has returned since the collaborators last changed something
NoCall == [call |-> "none"]

Helpers == {"created_by_current_user", "deleted_by_current_user",
            "updated_by_current_user"}

\* the state: the ChangeSet table, the content-type registry, the current
\* user, the rows of the starting queryset, what the last call returned
TypeOK ==
    /\ IsABag(changesets)
    /\ BagToSet(changesets) \subseteq ChangeSet
    /\ DOMAIN content_types \subseteq Models \cup OtherModels
    /\ \A m \in DOMAIN content_types : content_types[m] = ContentTypeOf(m)
    /\ current_user \in UserValues
    /\ rows \in [Models -> SUBSET PKs]
    /\ ret.call \in Helpers \cup {"get_content_type_of", "none"}
    /\ ret.call \in Helpers =>
          (ret.model \in Models /\ ret.self = rows[ret.model]
           /\ ret.value \subseteq PKs)
    /\ ret.call = "get_content_type_of" =>
          (ret.model \in Classes /\ ret.value \in ContentTypes \cup {None})

Init ==
    /\ changesets = EmptyBag
    /\ content_types = [m \in OtherModels |-> ContentTypeOf(m)]
    /\ current_user = None
    /\ rows = [m \in Models |-> {}]
    /\ ret = NoCall

\* get_current_user(): the request-scoped user, None when there is none
get_current_user == current_user

\* faulty variant: the resolver registers the class it does not find (get_or_create)
call_get_content_type_of_registers ==
    \E model \in Classes :
        LET real == IF getattr_deferred[model] THEN mro[model][2] ELSE model
        IN /\ content_types' = IF real \in DOMAIN content_types
                               THEN content_types
                               ELSE (real :> ContentTypeOf(real)) @@ content_types
           /\ ret' = [call |-> "get_content_type_of", model |-> model,
                      value |-> content_types'[real]]
           /\ UNCHANGED <<changesets, current_user, rows>>

\* a call of get_content_type_of(model) and what it returns
call_get_content_type_of ==
    \E model \in Classes :
        /\ ret' = [call |-> "get_content_type_of", model |-> model,
                   value |-> get_content_type_of(content_types, model)]
        /\ UNCHANGED env

\* faulty variant: resolving the content type registers the model it does not find
created_by_current_user_registers ==
    \E model \in Models :
        LET self == rows[model]
            user == get_current_user
        IN /\ content_types' = IF model \in DOMAIN content_types
                               THEN content_types
                               ELSE (model :> ContentTypeOf(model)) @@ content_types
           /\ ret' = [call |-> "created_by_current_user", model |-> model,
                      self |-> self,
                      value |-> created_by_current_user_qs(
                                    changesets, content_types, user, model, self)]
           /\ UNCHANGED <<changesets, current_user, rows>>

\* Model.objects.created_by_current_user()
created_by_current_user ==
    \E model \in Models :
        LET self == rows[model]
            user == get_current_user
        IN /\ ret' = [call |-> "created_by_current_user", model |-> model,
                      self |-> self,
                      value |-> created_by_current_user_qs(
                                    changesets, content_types, user, model, self)]
           /\ UNCHANGED env

\* Model.objects.deleted_by_current_user()
deleted_by_current_user ==
    \E model \in Models :
        LET self == rows[model]
            user == get_current_user
        IN /\ ret' = [call |-> "deleted_by_current_user", model |-> model,
                      self |-> self,
                      value |-> deleted_by_current_user_qs(
                                    changesets, content_types, user, model, self)]
           /\ UNCHANGED env

\* Model.objects.updated_by_current_user()
updated_by_current_user ==
    \E model \in Models :
        LET self == rows[model]
            user == get_current_user
        IN /\ ret' = [call |-> "updated_by_current_user", model |-> model,
                      self |-> self,
                      value |-> updated_by_current_user_qs(
                                    changesets, content_types, user, model, self)]
           /\ UNCHANGED env

(* ----------------------------- collaborators --------------------------- *)

\* the audit subsystem records a change
ChangeSet_objects_create ==
    \E c \in ChangeSet :
        /\ BagCardinality(changesets) < MaxLog
        /\ changesets' = changesets (+) SetToBag({c})
        /\ ret' = NoCall
        /\ UNCHANGED <<content_types, current_user, rows>>

\* the framework registers the content type of a model class
ContentType_objects_create ==
    \E m \in Models \ DOMAIN content_types :
        /\ content_types' = (m :> ContentTypeOf(m)) @@ content_types
        /\ ret' = NoCall
        /\ UNCHANGED <<changesets, current_user, rows>>

\* the request context changes the acting identity
set_current_user ==
    \E u \in UserValues \ {current_user} :
        /\ current_user' = u
        /\ ret' = NoCall
        /\ UNCHANGED <<changesets, content_types, rows>>

\* a row of the model's table comes to exist
Model_save ==
    \E m \in Models : \E pk \in PKs \ rows[m] :
        /\ rows' = [rows EXCEPT ![m] = @ \cup {pk}]
        /\ ret' = NoCall
        /\ UNCHANGED <<changesets, content_types, current_user>>

Next ==
    \/ call_get_content_type_of
    \/ created_by_current_user
    \/ deleted_by_current_user
    \/ updated_by_current_user
    \/ ChangeSet_objects_create
    \/ ContentType_objects_create
    \/ set_current_user
    \/ Model_save

Spec == Init /\ [][Next]_vars

(* ------------------------------- claims -------------------------------- *)

\* the registry entry of a class, None when it has none
RegistryTag(class) ==
    IF class \in DOMAIN content_types THEN content_types[class] ELSE None

\* some audit record of the table is exactly (user, tag, pk, kind)
HasRecord(table, user, tag, pk, kind) ==
    \E c \in BagToSet(table) :
        /\ c.user = user
        /\ c.object_type = tag
        /\ c.object_uuid = pk
        /\ c.changeset_type = kind

\* the generic helper of the specification: the rows of the starting
\* queryset whose key is the object_uuid of a record matching user, tag, kind
GenericHelper(kind) ==
    {pk \in ret.self :
        HasRecord(changesets, current_user, RegistryTag(ret.model), pk, kind)}

\* C1: created_by_current_user on a model with a registered content type
\* returns exactly the rows of the starting queryset whose primary key is the
\* object_uuid of an insert record of the current user and the model's tag;
\* when one record (U, tag, X) is the only such record, the result is {X}.
C1_CreatedExact ==
    (ret.call = "created_by_current_user" /\ ret.model \in DOMAIN content_types)
    => /\ \A pk \in PKs :
            pk \in ret.value <=>
                /\ pk \in rows[ret.model]
                /\ HasRecord(changesets, current_user,
                             content_types[ret.model], pk, "I")
       /\ \A x \in rows[ret.model] :
            ({c \in BagToSet(changesets) :
                 /\ c.user = current_user
                 /\ c.object_type = content_types[ret.model]
                 /\ c.changeset_type = "I"}
               = {[user |-> current_user,
                   object_type |-> content_types[ret.model],
                   object_uuid |-> x, changeset_type |-> "I"]})
            => ret.value = {x}

\* C1 witness: alice created x, y is a row too, and the call returned {x}
C1_Witness ==
    /\ ret.call = "created_by_current_user"
    /\ current_user = "alice"
    /\ "Article" \in DOMAIN content_types
    /\ rows["Article"] = {"x", "y"}
    /\ BagToSet(changesets) =
           {[user |-> "alice", object_type |-> "contenttype_article",
             object_uuid |-> "x", changeset_type |-> "I"],
            [user |-> None, object_type |-> "contenttype_article",
             object_uuid |-> "y", changeset_type |-> "I"]}
    /\ ret.value = {"x"}

\* C2: on a model with no registered content type each helper returns the
\* empty result, whatever the audit log holds.
C2_UnregisteredEmpty ==
    (ret.call \in Helpers /\ ret.model \notin DOMAIN content_types)
    => ret.value = {}

C4_Idempotent ==
    [][(/\ ret.call \in Helpers
        /\ ret'.call = ret.call
        /\ ret'.model = ret.model)
       => (ret'.self = ret.self /\ ret'.value = ret.value)]_vars

\* C4 witness: a helper has returned a non-empty result on an unregistered
\* model and can be called again
C4_Witness ==
    /\ ret.call \in Helpers
    /\ ret.model \notin DOMAIN content_types
    /\ ret.value # {}

\* C5: a call of get_content_type_of or of a helper leaves the audit log,
\* the rows, the registry and the current user as they were.
C5_ReadOnly ==
    [][ret'.call # "none" => UNCHANGED env]_vars

\* C5 witness: the resolver has returned for a class with no registry entry
C5_Witness ==
    /\ ret.call = "get_content_type_of"
    /\ ret.model = "Article"
    /\ "Article" \notin DOMAIN content_types
    /\ changesets # EmptyBag
    /\ rows["Article"] # {}

\* C6: for a deferred proxy class get_content_type_of returns the registry
\* tag of the second entry of its resolution order, for any other class the
\* tag of the class itself.
C6_DeferredBase ==
    ret.call = "get_content_type_of"
    => ret.value = IF ret.model \in DeferredClasses
                   THEN RegistryTag(mro[ret.model][2])
                   ELSE RegistryTag(ret.model)

\* C6 witness: the proxy of a registered model resolved to the model's tag
C6_Witness ==
    /\ ret.call = "get_content_type_of"
    /\ ret.model = "Article_Deferred_title"
    /\ ret.value = "contenttype_article"

\* C7: get_content_type_of returns None, and no exception, when the class it
\* resolves to has no registry entry, and the entry's tag when it has one.
C7_SoftFailure ==
    ret.call = "get_content_type_of"
    => LET real == IF ret.model \in DeferredClasses
                   THEN mro[ret.model][2] ELSE ret.model
       IN /\ ret.value # DoesNotExist
          /\ real \notin DOMAIN content_types => ret.value = None
          /\ real \in DOMAIN content_types => ret.value = content_types[real]

\* C7 witness: the resolver returned None for a class without an entry
C7_Witness ==
    /\ ret.call = "get_content_type_of"
    /\ ret.model \in Models
    /\ ret.model \notin DOMAIN content_types
    /\ ret.value = None

C9_AbsentUserPassedThrough ==
    (ret.call \in Helpers /\ current_user = None)
    => LET kind == CASE ret.call = "created_by_current_user" -> "I"
                     [] ret.call = "updated_by_current_user" -> "U"
                     [] ret.call = "deleted_by_current_user" -> "D"
       IN \A pk \in PKs :
            pk \in ret.value <=>
                (pk \in ret.self /\
                 \E c \in BagToSet(changesets) :
                    /\ c.user = None
                    /\ c.object_type = RegistryTag(ret.model)
                    /\ c.object_uuid = pk
                    /\ c.changeset_type = kind)

\* C9 witness: a helper returned a row under the absent user
C9_Witness ==
    /\ ret.call = "updated_by_current_user"
    /\ current_user = None
    /\ "Article" \in DOMAIN content_types
    /\ ret.value = {"y"}
    /\ ret.self = {"x", "y"}

\* the helper's query, by the name of the helper
HelperQuery(call, table) ==
    CASE call = "created_by_current_user" ->
            created_by_current_user_qs(table, content_types, current_user,
                                       ret.model, ret.self)
      [] call = "updated_by_current_user" ->
            updated_by_current_user_qs(table, content_types, current_user,
                                       ret.model, ret.self)
      [] call = "deleted_by_current_user" ->
            deleted_by_current_user_qs(table, content_types, current_user,
                                       ret.model, ret.self)

\* an audit record of the current user and the queried model's tag
Relevant(c) ==
    c.user = current_user /\ c.object_type = RegistryTag(ret.model)

\* the records of the log that are of the current user and the model's tag
RelevantPart(table) ==
    [c \in {d \in BagToSet(table) : Relevant(d)} |-> table[c]]

\* C10: a helper's result is the same on the log cut down to the records of
\* the current user and the model's tag, and on the log with any record of
\* another user or another tag added, removed or duplicated.
C10_Isolation ==
    ret.call \in Helpers
    => /\ HelperQuery(ret.call, RelevantPart(changesets)) = ret.value
       /\ \A c \in ChangeSet :
            ~Relevant(c) =>
                HelperQuery(ret.call, changesets (+) SetToBag({c})) = ret.value
       /\ \A c \in BagToSet(changesets) :
            ~Relevant(c) =>
                HelperQuery(ret.call, changesets (-) SetToBag({c})) = ret.value

\* C10 witness: the log holds a record of another user and one of another
\* tag for rows of the model, and the helper returned none of them
C10_Witness ==
    /\ ret.call = "created_by_current_user"
    /\ current_user = "alice"
    /\ rows["Article"] = {"x", "y"}
    /\ "Article" \in DOMAIN content_types
    /\ HasRecord(changesets, None, "contenttype_article", "x", "I")
    /\ HasRecord(changesets, "alice", "contenttype_comment", "y", "I")
    /\ ret.value = {}

====
